---- MODULE Spec2Model ----
(***************************************************************************)
(* Model of the post router of Gibber (src/src/components/nav/Side.tsx,    *)
(* lines 349-791): the post.create write transaction, the object-storage   *)
(* promotion of staged uploads, and computeInteractions with the read      *)
(* endpoints that call it.                                                  *)
(*                                                                         *)
(* The relational store is modelled as committed tables (posts, files,     *)
(* attachments, favorites) plus, for every running post.create call, the   *)
(* uncommitted writes of its interactive transaction (tx).  Object storage *)
(* (store) is outside the transaction.                                     *)
(***************************************************************************)
EXTENDS Integers, Sequences, FiniteSets, TLC

VARIABLES posts, files, attachments, favorites, store, lock,
          pc, input, tx, ret, s3log, result, issued

vars == <<posts, files, attachments, favorites, store, lock,
          pc, input, tx, ret, s3log, result, issued>>

\* issued is the number of keys uuidv4() has handed out to uploads: a fresh
\* uuid differs from every earlier one, so the n-th is modelled as the n-th
\* staging key.

dbVars == <<posts, files, attachments, favorites>>

\* ---------------------------------------------------------------- bounds
\* Number of post.create calls that may run (concurrently).
MaxCalls == 2
\* Longest files array the callers of the model supply.
MaxFiles == 2
\* Number of optional input fields a modelled call may supply.
MaxSetFields == 2

\* ---------------------------------------------------- program constants
\* z.array(...).max(4)
MaxUploads == 4

\* ------------------------------------------------------- JS value domain
\* An absent optional field (JavaScript undefined) and a NULL column.
Undef == "undefined"
Null == "null"

\* JavaScript truthiness of an optional string.
Truthy(v) == v \notin {Undef, Null, ""}

\* Prisma writes an undefined data field as the column default (NULL).
ToColumn(v) == IF v = Undef THEN Null ELSE v

\* { ...a, ...b }: keys of b override keys of a.
Spread(a, b) ==
    [k \in (DOMAIN a) \cup (DOMAIN b) |-> IF k \in DOMAIN b THEN b[k] ELSE a[k]]

\* ------------------------------------------------------------- identities
Calls == 1..MaxCalls

\* Profiles and the accounts that own them (Profile.userId).
Profiles == {"pa", "pb"}
ProfileOwner == [pa |-> "u1", pb |-> "u2"]
\* ctx.session.user.id of the authenticated caller.
SessionUser == "u1"

\* Post ids are opaque unique strings; the post of call c gets a fresh one.
PostIdTable == <<"p1", "p2", "p3", "p4", "p5", "p6">>
InitPostId == PostIdTable[1]
NewPostId(c) == PostIdTable[1 + c]
\* Ids a caller may name as a parent: the existing post and the post that
\* the first call creates (which exists only once that call has committed).
RefIds == {PostIdTable[1], PostIdTable[2]}

\* Object keys are <<a, b, ext>>: a staging key is the uuid <<0, n>> with no
\* extension, a permanent name is the uuid <<c, i>> of file i of call c
\* followed by the declared extension.
StagingKey(n) == <<0, n, "">>
Keys == {StagingKey(1), StagingKey(2)}
PermanentName(c, i, ext) == <<c, i, ext>>

\* Object contents: byte length, and what probe-image-size detects
\* (type "none": not a recognisable image).
GoodPng == [len |-> 1, type |-> "png", mime |-> "image/png", width |-> 2, height |-> 1]
GoodJpg == [len |-> 1, type |-> "jpg", mime |-> "image/jpeg", width |-> 2, height |-> 1]
Garbage == [len |-> 1, type |-> "none", mime |-> "none", width |-> 0, height |-> 0]
EmptyObj == [len |-> 0, type |-> "none", mime |-> "none", width |-> 0, height |-> 0]
ObjKinds == {GoodPng, GoodJpg, Garbage, EmptyObj}


\* ------------------------------------------------------------ input domain
Exts == {"png"}
Uploads == [key : Keys, ext : Exts]

RECURSIVE SeqsUpTo(_, _)
\* All sequences over S of length at most n.
SeqsUpTo(S, n) ==
    IF n = 0 THEN {<<>>}
    ELSE LET shorter == SeqsUpTo(S, n - 1)
         IN  shorter \cup {Append(q, x) : q \in {r \in shorter : Len(r) = n - 1}, x \in S}

\* input.files: absent, or an array of {key, ext}.
NoFiles == [given |-> FALSE, list |-> <<>>]
\* The modelled callers name each staging key at most once per call.
NoRepeat(l) == \A i, j \in DOMAIN l : l[i].key = l[j].key => i = j
FilesValues ==
    {NoFiles} \cup {[given |-> TRUE, list |-> l] : l \in {q \in SeqsUpTo(Uploads, MaxFiles) : NoRepeat(q)}}

\* input.inReplyToId and input.reblogId as the modelled callers supply them.
ReplyValues == {Undef, ""} \cup RefIds
ReblogValues == {Undef} \cup RefIds
ContentValues == {Undef, "", "hi"}

\* Number of optional fields the input supplies.
NumSet(in) ==
    (IF in.inReplyToId = Undef THEN 0 ELSE 1) + (IF in.reblogId = Undef THEN 0 ELSE 1)
    + (IF in.content = Undef THEN 0 ELSE 1) + (IF in.files.given THEN 1 ELSE 0)

CreateInputs ==
    {in \in [profileId : Profiles, inReplyToId : ReplyValues, reblogId : ReblogValues,
             content : ContentValues, files : FilesValues] : NumSet(in) <= MaxSetFields}

\* The schema without its refine() test.
InputValidNoRefine(in) == Len(in.files.list) <= MaxUploads

\* The zod schema of post.create: at most 4 files, and the refine() test.
InputValid(in) ==
    /\ Len(in.files.list) <= MaxUploads
    /\ \/ Truthy(in.inReplyToId)
       \/ Truthy(in.reblogId)
       \/ Truthy(in.content)
       \/ (in.files.given /\ Len(in.files.list) > 0)

\* ------------------------------------------------------------------ tables
AllPostIds == {PostIdTable[i] : i \in 1..(1 + MaxCalls)}

PostRow(id, profileId, content, inReplyToId, reblogId) ==
    [id |-> id, profileId |-> profileId, content |-> content,
     inReplyToId |-> inReplyToId, reblogId |-> reblogId,
     repliesCount |-> 0, reblogsCount |-> 0]

\* A transaction with no uncommitted writes.
NoRows == [p \in {} |-> Null]
NoTx == [rows |-> NoRows, files |-> <<>>, atts |-> <<>>, i |-> 1]
NoInput == [profileId |-> Null, inReplyToId |-> Undef, reblogId |-> Undef,
            content |-> Undef, files |-> NoFiles]
NoRet == [status |-> "none", value |-> [id |-> Null]]
NoResult == [called |-> FALSE]

\* Rows of the Post table as transaction c sees them: its own uncommitted
\* writes over the committed table.
View(c) == Spread(posts, tx[c].rows)

\* ------------------------------------------------------------------- Init
Init ==
    /\ posts = (InitPostId :> PostRow(InitPostId, "pa", "hi", Null, Null))
    /\ files = {}
    /\ attachments = {}
    /\ favorites = {}
    /\ \E o \in ObjKinds : store = (StagingKey(1) :> GoodPng) @@ (StagingKey(2) :> o)
    /\ lock = [p \in AllPostIds |-> 0]
    /\ pc = [c \in Calls |-> "idle"]
    /\ input = [c \in Calls |-> NoInput]
    /\ tx = [c \in Calls |-> NoTx]
    /\ ret = [c \in Calls |-> NoRet]
    /\ s3log = [c \in Calls |-> <<>>]
    /\ result = NoResult
    /\ issued = Cardinality(Keys)


\* ---------------------------------------------------------------- helpers
Range(q) == {q[i] : i \in DOMAIN q}

\* All orders in which the rows of S can be returned.
Orderings(S) ==
    {q \in [1..Cardinality(S) -> S] : \A i, j \in 1..Cardinality(S) : q[i] = q[j] => i = j}

\* attachments: { include: { file: true } } of post pid over tables A and F.
AttachmentsOf(A, F, pid) ==
    {Spread(a, [file |-> CHOOSE f \in F : f.id = a.fileId]) : a \in {x \in A : x.postId = pid}}

\* basePostInclude applied to a row, its attachments returned in order q.
BaseHydrate(row, q) == Spread(row, [attachments |-> q])

\* The control point that follows the counter updates: the file loop runs
\* when files is an array with at least one element.
AfterReblog(in) ==
    IF in.files.given /\ Len(in.files.list) > 0 THEN "copy" ELSE "reread"
AfterReply(in) == IF Truthy(in.reblogId) THEN "reblog" ELSE AfterReblog(in)
AfterInsert(in) == IF Truthy(in.inReplyToId) THEN "reply" ELSE AfterReply(in)

TxPcs == {"insert", "reply", "reblog", "copy", "delete", "get", "file", "attach", "reread"}

\* Rollback as it would be had the post row and the counter updates been
\* written through the global client instead of the transaction client.
RollbackKeepsPost(c, code) ==
    /\ posts' = Spread(posts, tx[c].rows)
    /\ UNCHANGED <<files, attachments, favorites>>
    /\ tx' = [tx EXCEPT ![c] = [rows |-> [p \in {} |-> Null], files |-> <<>>, atts |-> <<>>, i |-> 1]]
    /\ lock' = [p \in AllPostIds |-> IF lock[p] = c THEN 0 ELSE lock[p]]
    /\ pc' = [pc EXCEPT ![c] = "done"]
    /\ ret' = [ret EXCEPT ![c] = [status |-> code, value |-> [id |-> Null]]]

\* Rollback as it would be had the counter updates been issued through the
\* global client: the increments of the parents outlive the transaction.
RollbackKeepsCounters(c, code) ==
    /\ posts' = [p \in DOMAIN posts |-> View(c)[p]]
    /\ UNCHANGED <<files, attachments, favorites>>
    /\ tx' = [tx EXCEPT ![c] = NoTx]
    /\ lock' = [p \in AllPostIds |-> IF lock[p] = c THEN 0 ELSE lock[p]]
    /\ pc' = [pc EXCEPT ![c] = "done"]
    /\ ret' = [ret EXCEPT ![c] = [status |-> code, value |-> [id |-> Null]]]

\* The callback threw: the interactive transaction is rolled back (its
\* writes are discarded and its row locks released) and the call raises.
Rollback(c, code) ==
    /\ UNCHANGED dbVars
    /\ tx' = [tx EXCEPT ![c] = NoTx]
    /\ lock' = [p \in AllPostIds |-> IF lock[p] = c THEN 0 ELSE lock[p]]
    /\ pc' = [pc EXCEPT ![c] = "done"]
    /\ ret' = [ret EXCEPT ![c] = [status |-> code, value |-> [id |-> Null]]]

\* ----------------------------------------------------------------- actions
\* The permission check without the userId condition.
HasPermissionAnyUser(in) == in.profileId \in DOMAIN ProfileOwner

\* profile.findFirst({ id: input.profileId, userId: session.user.id })
HasPermission(in) == ProfileOwner[in.profileId] = SessionUser

\* A client invokes post.create.  The zod schema is checked before the
\* resolver runs; the resolver opens the transaction and first checks that
\* the caller owns the profile.
Call(c) ==
    /\ pc[c] = "idle"
    /\ \A d \in Calls : d < c => pc[d] # "idle"
    /\ \E in \in CreateInputs :
        /\ NewPostId(c) \notin {in.inReplyToId, in.reblogId}
        /\ input' = [input EXCEPT ![c] = in]
        /\ IF ~InputValid(in)
           THEN /\ pc' = [pc EXCEPT ![c] = "done"]
                /\ ret' = [ret EXCEPT ![c] = [status |-> "INVALID_INPUT", value |-> [id |-> Null]]]
           ELSE IF ~HasPermission(in)
           THEN /\ pc' = [pc EXCEPT ![c] = "done"]
                /\ ret' = [ret EXCEPT ![c] = [status |-> "FORBIDDEN", value |-> [id |-> Null]]]
           ELSE /\ pc' = [pc EXCEPT ![c] = "insert"]
                /\ ret' = ret
    /\ UNCHANGED <<dbVars, store, lock, tx, s3log, result, issued>>

\* tx.post.create
InsertPost(c) ==
    /\ pc[c] = "insert"
    /\ LET in == input[c]
           row == PostRow(NewPostId(c), in.profileId, ToColumn(in.content),
                          ToColumn(in.inReplyToId), ToColumn(in.reblogId))
       IN  /\ tx' = [tx EXCEPT ![c].rows = Spread(@, NewPostId(c) :> row)]
           /\ pc' = [pc EXCEPT ![c] = AfterInsert(in)]
    /\ UNCHANGED <<dbVars, store, lock, input, ret, s3log, result, issued>>

\* The counter update as a read-modify-write that takes no row lock.
CanLockRacy(c, p) == TRUE

\* UPDATE ... SET field = field + 1 takes the row lock of p, which the
\* transaction holds until it ends.
CanLock(c, p) == lock[p] \in {0, c}

\* An update that bumps both counters of the row.
IncrementBoth(row, field) ==
    [row EXCEPT !.repliesCount = @ + 1, !.reblogsCount = @ + 1]

\* data: { <field>: { increment: 1 } }
Increment(row, field) == [row EXCEPT ![field] = @ + 1]

\* tx.post.update({ where: { id: p }, data: { <field>: { increment: 1 } } })
UpdateCounter(c, p, field, next) ==
    IF p \notin DOMAIN View(c)
    THEN Rollback(c, "ERROR")
    ELSE /\ CanLock(c, p)
         /\ UNCHANGED dbVars
         /\ lock' = [lock EXCEPT ![p] = c]
         /\ tx' = [tx EXCEPT ![c].rows = Spread(@, p :> Increment(View(c)[p], field))]
         /\ pc' = [pc EXCEPT ![c] = next]
         /\ ret' = ret

IncrementReplies(c) ==
    /\ pc[c] = "reply"
    /\ UpdateCounter(c, input[c].inReplyToId, "repliesCount", AfterReply(input[c]))
    /\ UNCHANGED <<store, input, s3log, result, issued>>

IncrementReblogs(c) ==
    /\ pc[c] = "reblog"
    /\ UpdateCounter(c, input[c].reblogId, "reblogsCount", AfterReblog(input[c]))
    /\ UNCHANGED <<store, input, s3log, result, issued>>


\* The upload the file loop is at, and the permanent name uuid + "." + ext.
Upload(c) == input[c].files.list[tx[c].i]
Name(c) == PermanentName(c, tx[c].i, Upload(c).ext)

\* A delete that leaves the object in place.
RemoveNothing(S, key) == S

\* DeleteObjectCommand as it removes the object stored under key from S.
RemoveObject(S, key) == [k \in (DOMAIN S) \ {key} |-> S[k]]

\* The loop body with the delete of the staging key issued before the copy:
\* the copy then finds no source object and throws.
DeleteBeforeCopy(c) ==
    /\ pc[c] = "copy"
    /\ s3log' = [s3log EXCEPT ![c] = Append(Append(@, <<"delete", Upload(c).key, Name(c)>>),
                                            <<"copy", Upload(c).key, Name(c)>>)]
    /\ store' = RemoveObject(store, Upload(c).key)
    /\ Rollback(c, "ERROR")
    /\ UNCHANGED <<input, result, issued>>

\* s3Server.send(new CopyObjectCommand(...)): fails when the staging key
\* holds no object.
CopyObject(c) ==
    /\ pc[c] = "copy"
    /\ s3log' = [s3log EXCEPT ![c] = Append(@, <<"copy", Upload(c).key, Name(c)>>)]
    /\ IF Upload(c).key \in DOMAIN store
       THEN /\ store' = Spread(store, Name(c) :> store[Upload(c).key])
            /\ pc' = [pc EXCEPT ![c] = "delete"]
            /\ UNCHANGED <<dbVars, tx, lock, ret>>
       ELSE /\ store' = store
            /\ Rollback(c, "ERROR")
    /\ UNCHANGED <<input, result, issued>>

\* s3Server.send(new DeleteObjectCommand(...))
DeleteObject(c) ==
    /\ pc[c] = "delete"
    /\ s3log' = [s3log EXCEPT ![c] = Append(@, <<"delete", Upload(c).key, Name(c)>>)]
    /\ store' = RemoveObject(store, Upload(c).key)
    /\ pc' = [pc EXCEPT ![c] = "get"]
    /\ UNCHANGED <<dbVars, lock, input, tx, ret, result, issued>>

\* probe(object.Body): the detected type, or nothing for content that is
\* not a recognisable image.
Probe(object) == IF object.type = "none" THEN Null ELSE object.type

\* The validity test without the comparison of extension and probed type.
FileInvalidNoExt(object, upload) ==
    \/ object.len = 0
    \/ Probe(object) = Null

\* The test that guards "Invalid file uploaded.".
FileInvalid(object, upload) ==
    \/ object.len = 0
    \/ Probe(object) = Null
    \/ upload.ext # Probe(object)

\* GetObjectCommand on the permanent name, probe, and the validity test.
GetAndProbe(c) ==
    /\ pc[c] = "get"
    /\ IF FileInvalid(store[Name(c)], Upload(c))
       THEN Rollback(c, "BAD_REQUEST")
       ELSE /\ pc' = [pc EXCEPT ![c] = "file"]
            /\ UNCHANGED <<dbVars, tx, lock, ret>>
    /\ UNCHANGED <<store, input, s3log, result, issued>>

\* The row tx.file.create writes (width and height as the code assigns them).
FileRow(name, upload, object) ==
    [id |-> name, type |-> "IMAGE", mime |-> object.mime, extension |-> upload.ext,
     name |-> name, size |-> object.len, width |-> object.height, height |-> object.width]

\* tx.file.create (an uncommitted write of the transaction)
CreateFile(c) ==
    /\ pc[c] = "file"
    /\ tx' = [tx EXCEPT ![c].files = Append(@, FileRow(Name(c), Upload(c), store[Name(c)]))]
    /\ pc' = [pc EXCEPT ![c] = "attach"]
    /\ UNCHANGED <<dbVars, store, lock, input, ret, s3log, result, issued>>

\* tx.attachment.create, then the next iteration of the loop.
CreateAttachment(c) ==
    /\ pc[c] = "attach"
    /\ tx' = [tx EXCEPT ![c].atts = Append(@, [postId |-> NewPostId(c), fileId |-> Name(c)]),
                        ![c].i = @ + 1]
    /\ pc' = [pc EXCEPT ![c] = IF tx[c].i < Len(input[c].files.list) THEN "copy" ELSE "reread"]
    /\ UNCHANGED <<dbVars, store, lock, input, ret, s3log, result, issued>>

\* postInclude applied to post id over the tables the reader sees.  The
\* include has no orderBy, so each attachments relation comes back in an
\* order the database chooses.
Hydrations(P, A, F, id) ==
    LET outer == {BaseHydrate(P[id], q) : q \in Orderings(AttachmentsOf(A, F, id))}
        rid == P[id].reblogId
        inner == IF rid \in DOMAIN P
                 THEN {<<BaseHydrate(P[rid], q)>> : q \in Orderings(AttachmentsOf(A, F, rid))}
                 ELSE {<<>>}
    IN  {Spread(o, [reblog |-> n]) : o \in outer, n \in inner}

\* tx.post.findUniqueOrThrow({ where: { id: post.id }, include: postInclude }),
\* the returned { isReblogged: false, isFavorited: false, ...createdPost },
\* and, the callback having returned, the commit of every write at once.
ReReadAndCommit(c) ==
    /\ pc[c] = "reread"
    /\ \E createdPost \in Hydrations(View(c), attachments \cup Range(tx[c].atts),
                                     files \cup Range(tx[c].files), NewPostId(c)) :
        ret' = [ret EXCEPT ![c] =
                   [status |-> "ok",
                    value |-> Spread([isReblogged |-> FALSE, isFavorited |-> FALSE],
                                     createdPost)]]
    /\ posts' = View(c)
    /\ files' = files \cup Range(tx[c].files)
    /\ attachments' = attachments \cup Range(tx[c].atts)
    /\ tx' = [tx EXCEPT ![c] = NoTx]
    /\ lock' = [p \in AllPostIds |-> IF lock[p] = c THEN 0 ELSE lock[p]]
    /\ pc' = [pc EXCEPT ![c] = "done"]
    /\ UNCHANGED <<favorites, store, input, s3log, result, issued>>

\* Any awaited call of the transaction may throw for a reason outside the
\* router (a storage or database error, the transaction timeout, a
\* deadlock victim), or the server process may die there: the transaction
\* rolls back, and the call raises or is never answered.
Fail(c) ==
    /\ pc[c] \in TxPcs
    /\ Rollback(c, "ERROR")
    /\ UNCHANGED <<store, input, s3log, result, issued>>

Next ==
    \E c \in Calls :
        \/ Call(c)
        \/ InsertPost(c)
        \/ IncrementReplies(c)
        \/ IncrementReblogs(c)
        \/ CopyObject(c)
        \/ DeleteObject(c)
        \/ GetAndProbe(c)
        \/ CreateFile(c)
        \/ CreateAttachment(c)
        \/ ReReadAndCommit(c)
        \/ Fail(c)

Spec == Init /\ [][Next]_vars


\* ------------------------------------------------- interaction annotation
\* Number of Post rows in the databases the read side is checked on.
NumQPosts == 2
\* Longest posts array handed to computeInteractions.
MaxLen == 2

QIds == {PostIdTable[i] : i \in 1..NumQPosts}

\* A Prisma where condition "field: v": a condition whose value is
\* undefined is left out of the query.
WhereEq(v, field) == v = Undef \/ field = v

\* The reblog query without its "content: null" condition.
FindReblogsAnyContent(P, profileId) ==
    {P[id] : id \in {x \in DOMAIN P :
        /\ WhereEq(profileId, P[x].profileId)
        /\ P[x].reblogId # Null}}

\* prisma.post.findMany({ where: { profileId, content: null,
\*                                 NOT: { reblogId: null } } })
FindReblogs(P, profileId) ==
    {P[id] : id \in {x \in DOMAIN P :
        /\ WhereEq(profileId, P[x].profileId)
        /\ P[x].content = Null
        /\ P[x].reblogId # Null}}

\* prisma.favorite.findMany({ where: { profileId } })
FindFavorites(Fav, profileId) == {f \in Fav : WhereEq(profileId, f.profileId)}

\* The nested annotation computed from the id of the outer post.
AnnotateReblogByOuterId(post, reblogIds, favoriteIds) ==
    IF post.reblog # <<>>
    THEN <<Spread([isReblogged |-> post.id \in reblogIds,
                   isFavorited |-> post.id \in favoriteIds,
                   reblog |-> <<>>],
                  post.reblog[1])>>
    ELSE <<>>

\* The reblog member of the result: null, or the reblog target with its own
\* two flags and reblog: null.  (<<>> is null, <<r>> is the object r.)
AnnotateReblog(post, reblogIds, favoriteIds) ==
    IF post.reblog # <<>>
    THEN <<Spread([isReblogged |-> post.reblog[1].id \in reblogIds,
                   isFavorited |-> post.reblog[1].id \in favoriteIds,
                   reblog |-> <<>>],
                  post.reblog[1])>>
    ELSE <<>>

\* The callback of posts.map: { isReblogged, isFavorited, ...post, ...reblog }
Annotate(post, reblogIds, favoriteIds) ==
    Spread(Spread([isReblogged |-> post.id \in reblogIds,
                   isFavorited |-> post.id \in favoriteIds],
                  post),
           [reblog |-> AnnotateReblog(post, reblogIds, favoriteIds)])

\* computeInteractions(posts, profileId) over Post table P and Favorite
\* table Fav.
computeInteractions(P, Fav, ps, profileId) ==
    LET reblogIds == {r.reblogId : r \in FindReblogs(P, profileId)}
        favoriteIds == {f.postId : f \in FindFavorites(Fav, profileId)}
    IN  [i \in DOMAIN ps |-> Annotate(ps[i], reblogIds, favoriteIds)]

\* Post rows as findMany / findUnique with include: postInclude return them.
HydratedPosts == UNION {Hydrations(posts, attachments, files, id) : id \in DOMAIN posts}

\* A database for the read side: NumQPosts posts of either profile, each
\* with content, a reblog of an earlier post, or both, the reblog counters
\* matching, and any set of Favorite rows.
QTables ==
    LET Rows(i) == [id : {PostIdTable[i]}, profileId : Profiles, content : {Null, "hi"},
                    inReplyToId : {Null},
                    reblogId : {Null} \cup {PostIdTable[j] : j \in 1..(i - 1)},
                    repliesCount : {0}, reblogsCount : {0}]
        Raw == {t \in [QIds -> UNION {Rows(i) : i \in 1..NumQPosts}] :
                   \A id \in QIds :
                       /\ t[id].id = id
                       /\ t[id].content # Null \/ t[id].reblogId # Null}
        Counted(t) == [id \in QIds |->
                         [t[id] EXCEPT !.reblogsCount =
                             Cardinality({x \in QIds : t[x].reblogId = id})]]
    IN  {Counted(t) : t \in Raw}

InitQ ==
    /\ posts \in QTables
    /\ favorites \in SUBSET [profileId : Profiles, postId : QIds]
    /\ files = {}
    /\ attachments = {}
    /\ store = (StagingKey(1) :> GoodPng)
    /\ lock = [p \in AllPostIds |-> 0]
    /\ pc = [c \in Calls |-> "idle"]
    /\ input = [c \in Calls |-> NoInput]
    /\ tx = [c \in Calls |-> NoTx]
    /\ ret = [c \in Calls |-> NoRet]
    /\ s3log = [c \in Calls |-> <<>>]
    /\ result = NoResult
    /\ issued = Cardinality(DOMAIN store)

\* A direct call computeInteractions(ps, profileId); profileId is optional.
\* A behaviour of the read side is one request on one database.
ComputeInteractions ==
    /\ ~result.called
    /\ \E ps \in SeqsUpTo(HydratedPosts, MaxLen), v \in Profiles \cup {Undef} :
        result' = [called |-> TRUE, op |-> "computeInteractions", viewer |-> v,
                   in |-> ps, out |-> computeInteractions(posts, favorites, ps, v)]
    /\ UNCHANGED <<dbVars, store, lock, pc, input, tx, ret, s3log, issued>>

\* post.getById: findUniqueOrThrow, then computeInteractions([post], profileId).
GetById ==
    /\ ~result.called
    /\ \E id \in QIds \cup {PostIdTable[NumQPosts + 1]}, v \in Profiles :
        IF id \in DOMAIN posts
        THEN \E post \in Hydrations(posts, attachments, files, id) :
                result' = [called |-> TRUE, op |-> "getById", viewer |-> v,
                           in |-> <<post>>,
                           out |-> computeInteractions(posts, favorites, <<post>>, v)]
        ELSE result' = [called |-> TRUE, op |-> "getById", viewer |-> v,
                        in |-> <<>>, out |-> <<>>, error |-> "NOT_FOUND"]
    /\ UNCHANGED <<dbVars, store, lock, pc, input, tx, ret, s3log, issued>>

NextQ == ComputeInteractions \/ GetById

SpecQ == InitQ /\ [][NextQ]_vars

\* ------------------------------------------------------- presigned uploads
\* z.number().gte(1).lte(4)
MinCount == 1
MaxCount == 4
\* The schema does not ask for an integer: a count is modelled in units of
\* 1/CountScale, so that 3 (with scale 2) is the count 1.5.
CountScale == 2
\* Keys issued in one behaviour.
MaxIssued == 6

CountValues == 0..((MaxCount + 1) * CountScale)
IsInteger(h) == h % CountScale = 0
CountValid(h) == h >= MinCount * CountScale /\ h <= MaxCount * CountScale

\* Number of passes of for (let i = 0; i < input.count; i++).
Iterations(h) == (h + CountScale - 1) \div CountScale

\* getSignedUrl(s3Client, new PutObjectCommand({ Bucket, Key: key }))
SignedUrl(key) == [method |-> "PUT", bucket |-> "S3_BUCKET", key |-> key]

\* The loop with the key drawn once, before it.
PresignedUrlsOneKey(base, n) ==
    [i \in 1..n |-> [url |-> SignedUrl(StagingKey(base + 1)), key |-> StagingKey(base + 1)]]

\* The urls array after n passes, base keys having been drawn before.
PresignedUrls(base, n) ==
    [i \in 1..n |-> [url |-> SignedUrl(StagingKey(base + i)), key |-> StagingKey(base + i)]]

\* post.createPresignedUrls: the schema is checked first; signing may throw,
\* and then the query raises and returns nothing.
CreatePresignedUrls ==
    /\ \E h \in CountValues :
        IF ~CountValid(h)
        THEN /\ result' = [called |-> TRUE, op |-> "createPresignedUrls", count |-> h,
                           status |-> "INVALID_INPUT", out |-> <<>>]
             /\ issued' = issued
        ELSE /\ issued + Iterations(h) <= MaxIssued
             /\ issued' = issued + Iterations(h)
             /\ \/ result' = [called |-> TRUE, op |-> "createPresignedUrls", count |-> h,
                              status |-> "ok", out |-> PresignedUrls(issued, Iterations(h))]
                \/ result' = [called |-> TRUE, op |-> "createPresignedUrls", count |-> h,
                              status |-> "ERROR", out |-> <<>>]
    /\ UNCHANGED <<dbVars, store, lock, pc, input, tx, ret, s3log>>

\* What a signed PUT url allows: the client stores an object under a key
\* it was issued.
PutKinds == {GoodPng, EmptyObj}
ClientPut ==
    /\ \E n \in 1..issued, o \in PutKinds :
        store' = Spread(store, StagingKey(n) :> o)
    /\ UNCHANGED <<dbVars, lock, pc, input, tx, ret, s3log, result, issued>>

NextP == CreatePresignedUrls \/ ClientPut

SpecP == Init /\ [][NextP]_vars

\* ------------------------------------------------------- claim vocabulary
Started(c) == pc[c] # "idle"
Committed(c) == pc[c] = "done" /\ ret[c].status = "ok"
Failed(c) == pc[c] = "done" /\ ret[c].status # "ok"

FileList(c) == input[c].files.list
NameOf(c, i) == PermanentName(c, i, FileList(c)[i].ext)

AttachmentsOfCall(c) == {a \in attachments : a.postId = NewPostId(c)}
FilesOfCall(c) == {f \in files : f.id[1] = c}

\* No committed row stems from call c.
NoRowsOf(c) ==
    /\ NewPostId(c) \notin DOMAIN posts
    /\ AttachmentsOfCall(c) = {}
    /\ FilesOfCall(c) = {}

\* The post of call c and one File and one Attachment row per supplied
\* file are committed.
AllRowsOf(c) ==
    /\ NewPostId(c) \in DOMAIN posts
    /\ Cardinality(AttachmentsOfCall(c)) = Len(FileList(c))
    /\ Cardinality(FilesOfCall(c)) = Len(FileList(c))
    /\ \A i \in DOMAIN FileList(c) :
        /\ \E a \in AttachmentsOfCall(c) : a.fileId = NameOf(c, i)
        /\ \E f \in FilesOfCall(c) : f.id = NameOf(c, i)

CommittedReplies(p) == {c \in Calls : Committed(c) /\ input[c].inReplyToId = p}
CommittedReblogs(p) == {c \in Calls : Committed(c) /\ input[c].reblogId = p}

\* Every committed counter is the number of committed posts that name the
\* row as their parent.
CountersAccounted ==
    \A p \in DOMAIN posts :
        /\ posts[p].repliesCount = Cardinality(CommittedReplies(p))
        /\ posts[p].reblogsCount = Cardinality(CommittedReblogs(p))

\* C1: for every post.create call with a valid input, the database holds
\* either the post row, its counter increments and one File and one
\* Attachment row per supplied file, or none of them: a call that has not
\* committed has no row and no counter increment, in every reachable state.
C1_AtomicCreate ==
    /\ \A c \in Calls :
        (Started(c) /\ InputValid(input[c])) =>
            IF Committed(c) THEN AllRowsOf(c) ELSE NoRowsOf(c)
    /\ CountersAccounted

\* C1 witness: one call committed a reply with a file, another call was
\* rolled back after it had inserted its post and promoted a file.
C1_Witness ==
    \E c, d \in Calls :
        /\ Committed(c) /\ Len(FileList(c)) > 0 /\ Truthy(input[c].inReplyToId)
        /\ AllRowsOf(c)
        /\ posts[input[c].inReplyToId].repliesCount = 1
        /\ Failed(d) /\ ret[d].status = "BAD_REQUEST" /\ NoRowsOf(d)

\* C2: when every call that replies to a post has completed successfully,
\* the post's repliesCount is the number of those calls, however they were
\* interleaved; the same for reblogs and reblogsCount.
C2_NoLostIncrement ==
    \A p \in DOMAIN posts :
        LET R == {c \in Calls : Started(c) /\ input[c].inReplyToId = p}
            B == {c \in Calls : Started(c) /\ input[c].reblogId = p}
        IN  /\ (\A c \in R : Committed(c)) => posts[p].repliesCount = Cardinality(R)
            /\ (\A c \in B : Committed(c)) => posts[p].reblogsCount = Cardinality(B)

\* C2 witness: all calls replied to the same post and all committed.
C2_Witness ==
    /\ \A c \in Calls : Committed(c) /\ input[c].inReplyToId = InitPostId
    /\ posts[InitPostId].repliesCount = MaxCalls
    /\ MaxCalls > 1


\* C3 as stated: whenever the caller does not own input.profileId the call
\* fails with FORBIDDEN and writes nothing.
C3_Original ==
    \A c \in Calls :
        (Started(c) /\ ProfileOwner[input[c].profileId] # SessionUser) =>
            /\ Failed(c) /\ ret[c].status = "FORBIDDEN"
            /\ NoRowsOf(c) /\ s3log[c] = <<>>

\* An input with no truthy parent reference, no truthy content and no file.
IsEmptyInput(in) ==
    /\ in.inReplyToId \in {Undef, ""}
    /\ in.reblogId \in {Undef, ""}
    /\ in.content \in {Undef, ""}
    /\ Len(in.files.list) = 0

\* C3 (amended): when the caller does not own input.profileId and the input
\* passes the schema check, the call fails with FORBIDDEN; an input that
\* fails the schema check is rejected with the validation error whoever the
\* caller is.  Either way the call writes nothing: no Post, File or
\* Attachment row, no counter change, no object-storage copy or delete.
C3_ForbiddenNoWrites ==
    /\ [](\A c \in Calls :
            (Started(c) /\ ProfileOwner[input[c].profileId] # SessionUser) =>
                /\ Failed(c)
                /\ ret[c].status = IF IsEmptyInput(input[c]) THEN "INVALID_INPUT" ELSE "FORBIDDEN"
                /\ NoRowsOf(c) /\ s3log[c] = <<>> /\ tx[c] = NoTx)
    /\ [][\A c \in Calls :
            (~Started(c) /\ Started(c)' /\ ProfileOwner[input'[c].profileId] # SessionUser) =>
                UNCHANGED <<posts, files, attachments, store, lock>>]_vars

\* C3 witness: a call on a profile of another account was refused with
\* FORBIDDEN although its input named a parent and files.
C3_Witness ==
    \E c \in Calls :
        /\ ret[c].status = "FORBIDDEN" /\ pc[c] = "done"
        /\ ProfileOwner[input[c].profileId] # SessionUser
        /\ Truthy(input[c].inReplyToId) /\ Len(FileList(c)) > 0
        /\ NoRowsOf(c) /\ s3log[c] = <<>>
        /\ posts[input[c].inReplyToId].repliesCount = 0

\* A committed row with a parent reference, content or an attachment.
HasSomething(row) ==
    \/ row.inReplyToId \notin {Null, ""}
    \/ row.reblogId \notin {Null, ""}
    \/ row.content \notin {Null, ""}
    \/ \E a \in attachments : a.postId = row.id

\* C4: an input with none of {inReplyToId, reblogId, content, a file}
\* (absent, empty string or empty file list) is rejected before the
\* transaction starts and creates no row; and every committed Post row has
\* a reply-to, a reblog-of, content or an attachment.
C4_EmptyRejected ==
    /\ [](\A c \in Calls :
            (Started(c) /\ IsEmptyInput(input[c])) =>
                /\ Failed(c) /\ ret[c].status = "INVALID_INPUT"
                /\ NoRowsOf(c) /\ s3log[c] = <<>> /\ tx[c] = NoTx)
    /\ [](\A p \in DOMAIN posts : HasSomething(posts[p]))
    /\ [][\A c \in Calls :
            (~Started(c) /\ Started(c)' /\ IsEmptyInput(input'[c])) =>
                /\ pc'[c] = "done"
                /\ UNCHANGED <<posts, files, attachments, store, lock, tx>>]_vars

\* C4 witness: a call whose content is the empty string and whose file list
\* is empty was rejected, and a files-only post has been committed.
C4_Witness ==
    /\ \E c \in Calls :
        /\ ret[c].status = "INVALID_INPUT" /\ pc[c] = "done"
        /\ input[c].content = "" /\ input[c].files.given
        /\ NoRowsOf(c)
    /\ \E d \in Calls :
        /\ Committed(d) /\ ~Truthy(input[d].content)
        /\ ~Truthy(input[d].inReplyToId) /\ ~Truthy(input[d].reblogId)
        /\ AttachmentsOfCall(d) # {}

\* An upload that must not pass: no positive length, not a recognisable
\* image, or an extension other than the detected type.
UploadBad(object, upload) ==
    \/ ~(object.len > 0)
    \/ object.type = "none"
    \/ object.type # upload.ext

\* The files of call c that it has moved to their permanent name and that
\* are bad.
BadMoved(c) ==
    {i \in DOMAIN FileList(c) :
        /\ NameOf(c, i) \in DOMAIN store
        /\ UploadBad(store[NameOf(c, i)], FileList(c)[i])}

\* C5: a call with an upload that fails validation never gets past the
\* validation of that upload and never succeeds; the invalid-file failure
\* leaves no Post row, no File or Attachment row of the call (also none for
\* its earlier valid files) and no counter increment.
C5_InvalidFileFailsAll ==
    /\ \A c \in Calls :
        /\ BadMoved(c) # {} =>
              /\ pc[c] \in {"delete", "get", "done"}
              /\ ~Committed(c)
              /\ NoRowsOf(c)
              /\ pc[c] = "done" => ret[c].status \in {"BAD_REQUEST", "ERROR"}
        /\ ret[c].status = "BAD_REQUEST" =>
              /\ BadMoved(c) # {}
              /\ Failed(c) /\ NoRowsOf(c) /\ tx[c] = NoTx
    /\ CountersAccounted

\* C5 witness: a reply whose second file is bad failed with the
\* invalid-file error after its first, valid file had been promoted.
C5_Witness ==
    \E c \in Calls :
        /\ ret[c].status = "BAD_REQUEST" /\ pc[c] = "done"
        /\ Len(FileList(c)) > 1
        /\ 1 \notin BadMoved(c) /\ NameOf(c, 1) \in DOMAIN store
        /\ Truthy(input[c].inReplyToId)
        /\ posts[input[c].inReplyToId].repliesCount = 0
        /\ NoRowsOf(c)

\* The step in which call c commits.
CommitStep(c) == pc[c] = "reread" /\ pc'[c] = "done" /\ ret'[c].status = "ok"

\* The commit changes the counters of row p by dr replies and db reblogs.
CountersMove(p, dr, db) ==
    /\ posts'[p].repliesCount = posts[p].repliesCount + dr
    /\ posts'[p].reblogsCount = posts[p].reblogsCount + db

\* C9 as stated: a successful create with reblogId = P1 and no content adds
\* exactly 1 to P1's reblogsCount and changes no other counter, and stores
\* content null; a create with inReplyToId = P1 adds 1 to P1's repliesCount
\* only.
C9_Original ==
    [][\A c \in Calls : CommitStep(c) =>
        LET in == input[c]
        IN  /\ (Truthy(in.reblogId) /\ in.content = Undef) =>
                /\ CountersMove(in.reblogId, 0, 1)
                /\ \A q \in (DOMAIN posts) \ {in.reblogId} : CountersMove(q, 0, 0)
                /\ posts'[NewPostId(c)].content = Null
            /\ Truthy(in.inReplyToId) =>
                /\ CountersMove(in.inReplyToId, 1, 0)
                /\ \A q \in (DOMAIN posts) \ {in.inReplyToId} : CountersMove(q, 0, 0)]_vars

\* C9 (amended): a successful create with reblogId = P1, no content and no
\* inReplyToId adds exactly 1 to P1's reblogsCount, changes no other
\* counter and stores content null; a successful create with inReplyToId =
\* P1 and no reblogId adds exactly 1 to P1's repliesCount and changes no
\* other counter.
C9_OnlyNamedCounter ==
    [][\A c \in Calls : CommitStep(c) =>
        LET in == input[c]
        IN  /\ (Truthy(in.reblogId) /\ in.content = Undef /\ in.inReplyToId \in {Undef, ""}) =>
                /\ CountersMove(in.reblogId, 0, 1)
                /\ \A q \in (DOMAIN posts) \ {in.reblogId} : CountersMove(q, 0, 0)
                /\ posts'[NewPostId(c)].content = Null
            /\ (Truthy(in.inReplyToId) /\ in.reblogId = Undef) =>
                /\ CountersMove(in.inReplyToId, 1, 0)
                /\ \A q \in (DOMAIN posts) \ {in.inReplyToId} : CountersMove(q, 0, 0)]_vars

\* C9 witness: a reblog of the first post with no content and no reply-to
\* has committed after a reply to the same post: the post has one reblog
\* and one reply, and the reblog is stored with content null.
C9_Witness ==
    \E c, d \in Calls :
        /\ Committed(c) /\ input[c].reblogId = InitPostId
        /\ input[c].content = Undef /\ input[c].inReplyToId = Undef
        /\ posts[NewPostId(c)].content = Null
        /\ Committed(d) /\ input[d].inReplyToId = InitPostId /\ input[d].reblogId = Undef
        /\ posts[InitPostId].reblogsCount = 1
        /\ posts[InitPostId].repliesCount = 1

\* C10: every successful create returns the new post with isReblogged and
\* isFavorited false, both counters 0, and exactly one attachment per
\* supplied file, in input order.
C10_ReturnedPost ==
    \A c \in Calls : Committed(c) =>
        LET v == ret[c].value
        IN  /\ v.id = NewPostId(c)
            /\ v.isReblogged = FALSE /\ v.isFavorited = FALSE
            /\ v.repliesCount = 0 /\ v.reblogsCount = 0
            /\ Len(v.attachments) = Len(FileList(c))
            /\ \A i \in DOMAIN FileList(c) : v.attachments[i].fileId = NameOf(c, i)


\* The viewer's reblog set and favourite set as the specification defines
\* them.
ViewerR(v) ==
    {posts[x].reblogId : x \in {y \in DOMAIN posts :
        posts[y].profileId = v /\ posts[y].content = Null /\ posts[y].reblogId # Null}}
ViewerF(v) == {f.postId : f \in {g \in favorites : g.profileId = v}}

Answered == result.called /\ "error" \notin DOMAIN result

\* C6: for a viewer v, the output has the length and order of the input,
\* output post i is input post i with isReblogged = (id in R) and
\* isFavorited = (id in F), R being the reblogId values of v's own posts
\* with null content and F the postId values of v's Favorite rows; a quote
\* reblog of v does not count.
C6_ExactMembership ==
    (Answered /\ result.viewer # Undef) =>
        /\ Len(result.out) = Len(result.in)
        /\ \A i \in DOMAIN result.in :
            LET p == result.in[i]
                o == result.out[i]
            IN  /\ o.id = p.id
                /\ \A k \in (DOMAIN p) \ {"reblog"} : o[k] = p[k]
                /\ o.isReblogged = (p.id \in ViewerR(result.viewer))
                /\ o.isFavorited = (p.id \in ViewerF(result.viewer))

\* C6 witness: the viewer quote-reblogged the first post and favourited
\* the second; the output for <<first, second>> says not reblogged and not
\* favourited for the first, favourited for the second.
C6_Witness ==
    /\ Answered /\ result.viewer = "pa" /\ Len(result.in) = 2
    /\ result.in[1].id = PostIdTable[1] /\ result.in[2].id = PostIdTable[2]
    /\ posts[PostIdTable[2]].profileId = "pa"
    /\ posts[PostIdTable[2]].reblogId = PostIdTable[1]
    /\ posts[PostIdTable[2]].content # Null
    /\ ~result.out[1].isReblogged /\ ~result.out[1].isFavorited
    /\ result.out[2].isFavorited
    /\ \E g \in favorites : g.profileId = "pb" /\ g.postId = PostIdTable[1]

\* C7: the nested reblog of an output post is null exactly when the input
\* post has no reblog target; a present target keeps its id, carries the
\* membership of its id in the sets R and F used for the outer posts, and
\* has reblog null itself.
C7_NestedAnnotation ==
    Answered =>
        \A i \in DOMAIN result.in :
            LET p == result.in[i]
                o == result.out[i]
            IN  /\ (o.reblog = <<>>) <=> (p.reblog = <<>>)
                /\ p.reblog # <<>> =>
                    LET t == o.reblog[1]
                    IN  /\ t.id = p.reblog[1].id
                        /\ t.reblog = <<>>
                        /\ result.viewer # Undef =>
                            /\ t.isReblogged = (t.id \in ViewerR(result.viewer))
                            /\ t.isFavorited = (t.id \in ViewerF(result.viewer))
                        /\ \A j \in DOMAIN result.in :
                            result.in[j].id = t.id =>
                                /\ result.out[j].isReblogged = t.isReblogged
                                /\ result.out[j].isFavorited = t.isFavorited

\* C7 witness: the viewer's pure reblog of a post they favourited is
\* annotated: the outer post has no flag set, its nested target has both,
\* and a post without target has reblog null.
C7_Witness ==
    /\ Answered /\ Len(result.in) = 2
    /\ result.in[1].reblog # <<>> /\ result.in[2].reblog = <<>>
    /\ result.out[2].reblog = <<>>
    /\ result.out[1].reblog # <<>>
    /\ result.out[1].reblog[1].isReblogged /\ result.out[1].reblog[1].isFavorited
    /\ ~result.out[1].isReblogged /\ ~result.out[1].isFavorited
    /\ result.out[1].reblog[1].reblog = <<>>

\* C8: called without a viewer profile id, computeInteractions sets no flag:
\* every output post and every nested target has isReblogged = false and
\* isFavorited = false, whatever rows other profiles have.
C8_NoViewerNoFlags ==
    (Answered /\ result.viewer = Undef) =>
        \A i \in DOMAIN result.out :
            /\ ~result.out[i].isReblogged /\ ~result.out[i].isFavorited
            /\ result.out[i].reblog # <<>> =>
                /\ ~result.out[i].reblog[1].isReblogged
                /\ ~result.out[i].reblog[1].isFavorited

Presigned == result.called /\ result.op = "createPresignedUrls"

\* C11: post.createPresignedUrls with a whole count in 1..4 that returns,
\* returns exactly count {url, key} entries; the keys of a returned list are
\* pairwise distinct and each url signs a PUT of its key; a count below 1 or
\* above 4 is rejected with no entries; and the query changes no table and
\* no stored object.
C11_PresignedUrls ==
    /\ [](Presigned =>
            LET h == result.count
                out == result.out
            IN  /\ CountValid(h) /\ IsInteger(h) /\ result.status = "ok"
                     => Len(out) * CountScale = h
                /\ result.status = "ok" =>
                     /\ CountValid(h)
                     /\ Len(out) = Iterations(h)
                     /\ \A i, j \in DOMAIN out : out[i].key = out[j].key => i = j
                     /\ \A i \in DOMAIN out : out[i].url = SignedUrl(out[i].key)
                /\ ~CountValid(h) => result.status = "INVALID_INPUT"
                /\ result.status # "ok" => out = <<>>)
    /\ [][result' # result => UNCHANGED <<dbVars, store>>]_vars

C11_Witness ==
    /\ Presigned
    /\ result.status = "ok"
    /\ result.count = MaxCount * CountScale
    /\ Len(result.out) = MaxCount
    /\ store # [k \in Keys |-> store[k]]

\* Number of files call c has moved: a delete is issued once per file, after
\* its copy.
Moves(c) == Cardinality({n \in DOMAIN s3log[c] : s3log[c][n][1] = "delete"})

\* Call c has issued a storage command on key.
Touched(c, key) == \E n \in DOMAIN s3log[c] : s3log[c][n][2] = key

\* C12: when post.create fails validation on its k-th file, the moves of
\* files 1..k are not undone by the failure: the failing step changes no
\* stored object, the staging keys of files 1..k stay deleted and their
\* permanent objects stay present although no File, Attachment or Post row
\* refers to them; files k+1.. are never touched by the call (no command on
\* their keys, no permanent object, and the staging object remains unless
\* another call has moved it).
C12_MovesNotUndone ==
    /\ [](\A c \in Calls :
            ret[c].status = "BAD_REQUEST" =>
                LET k == Moves(c)
                    l == FileList(c)
                IN  /\ k \in DOMAIN l
                    /\ k \in BadMoved(c)
                    /\ \A i \in 1..k :
                        /\ l[i].key \notin DOMAIN store
                        /\ NameOf(c, i) \in DOMAIN store
                        /\ ~\E f \in files : f.id = NameOf(c, i)
                        /\ ~\E a \in attachments : a.fileId = NameOf(c, i)
                    /\ NewPostId(c) \notin DOMAIN posts
                    /\ \A i \in (k + 1)..Len(l) :
                        /\ ~Touched(c, l[i].key)
                        /\ NameOf(c, i) \notin DOMAIN store
                        /\ \/ l[i].key \in DOMAIN store
                           \/ \E d \in Calls \ {c} : Touched(d, l[i].key))
    /\ [][\A c \in Calls :
            (ret[c].status # "BAD_REQUEST" /\ ret'[c].status = "BAD_REQUEST")
                => store' = store]_vars

\* C12 witness: a call with two files failed validation on the first; the
\* first file sits under its permanent name with its staging key deleted,
\* the second is still staged, and the call left no row.
C12_Witness ==
    \E c \in Calls :
        /\ ret[c].status = "BAD_REQUEST"
        /\ Moves(c) = 1
        /\ Len(FileList(c)) = 2
        /\ FileList(c)[1].key \notin DOMAIN store
        /\ NameOf(c, 1) \in DOMAIN store
        /\ FileList(c)[2].key \in DOMAIN store
        /\ NoRowsOf(c)

LoopPcs == {"copy", "delete", "get", "file", "attach"}

\* Call c takes a step of its file loop, or leaves it, in source order.
LoopStepInOrder(c) ==
    LET key == Upload(c).key
        name == Name(c)
    IN  \/ pc'[c] = "done" /\ ret'[c].status # "ok" /\ store' = store
        \/ /\ pc[c] = "copy" /\ pc'[c] = "delete"
           /\ key \in DOMAIN store /\ name \notin DOMAIN store
           /\ store' = Spread(store, name :> store[key])
        \/ /\ pc[c] = "delete" /\ pc'[c] = "get"
           /\ name \in DOMAIN store
           /\ store' = RemoveObject(store, key)
        \/ /\ pc[c] = "get" /\ pc'[c] = "file"
           /\ ~UploadBad(store[name], Upload(c))
           /\ store' = store /\ tx'[c] = tx[c]
        \/ /\ pc[c] = "file" /\ pc'[c] = "attach"
           /\ tx'[c].files = Append(tx[c].files, FileRow(name, Upload(c), store[name]))
           /\ tx'[c].atts = tx[c].atts /\ tx'[c].i = tx[c].i
           /\ store' = store
        \/ /\ pc[c] = "attach"
           /\ tx'[c].atts = Append(tx[c].atts, [postId |-> NewPostId(c), fileId |-> name])
           /\ tx'[c].files = tx[c].files /\ tx'[c].i = tx[c].i + 1
           /\ IF tx[c].i < Len(FileList(c)) THEN pc'[c] = "copy" ELSE pc'[c] = "reread"
           /\ store' = store

\* What call c has done when it is at file i of its loop: files 1..i-1 have
\* their File and Attachment rows in input order, and the storage commands
\* issued so far are copy, delete of file 1, copy, delete of file 2, ...
LoopProgress(c) ==
    LET i == tx[c].i
        l == FileList(c)
        done == CASE pc[c] = "copy" -> 2 * (i - 1)
                  [] pc[c] = "delete" -> 2 * i - 1
                  [] OTHER -> 2 * i
    IN  /\ i \in DOMAIN l
        /\ Len(tx[c].atts) = i - 1
        /\ Len(tx[c].files) = IF pc[c] = "attach" THEN i ELSE i - 1
        /\ \A j \in DOMAIN tx[c].files : tx[c].files[j].id = NameOf(c, j)
        /\ \A j \in DOMAIN tx[c].atts : tx[c].atts[j].fileId = NameOf(c, j)
        /\ Len(s3log[c]) = done

\* The storage commands of call c: the n-th file's copy, then its delete.
LogInOrder(c) ==
    \A n \in DOMAIN s3log[c] :
        LET j == (n + 1) \div 2
        IN  /\ j \in DOMAIN FileList(c)
            /\ s3log[c][n] = <<IF n % 2 = 1 THEN "copy" ELSE "delete",
                               FileList(c)[j].key, NameOf(c, j)>>

\* The content uploaded under key is stored under key or under a permanent
\* name it was copied to.
ContentKept(key) ==
    \/ key \in DOMAIN store
    \/ \E c \in Calls : \E i \in DOMAIN FileList(c) :
          FileList(c)[i].key = key /\ NameOf(c, i) \in DOMAIN store

\* C13: within post.create each file is promoted in input order by copy,
\* delete of the staging key, fetch and probe, File row, Attachment row;
\* no delete of a staging key precedes its copy; in every state, also after
\* a failure or crash at any step, every uploaded content is stored under
\* its staging key or a permanent name (with the same content where both
\* exist); and between copy and delete, so also after a crash there, the
\* permanent object exists and the staging object is still there unless
\* another call has deleted it.
C13_CopyThenDelete ==
    /\ [](\A c \in Calls :
            /\ pc[c] \in LoopPcs => LoopProgress(c)
            /\ LogInOrder(c)
            /\ \A i \in DOMAIN FileList(c) :
                 (NameOf(c, i) \in DOMAIN store /\ FileList(c)[i].key \in DOMAIN store)
                    => store[NameOf(c, i)] = store[FileList(c)[i].key]
            /\ (pc[c] = "delete" \/ (Failed(c) /\ Len(s3log[c]) % 2 = 1
                                       /\ NameOf(c, Moves(c) + 1) \in DOMAIN store)) =>
                 LET i == Moves(c) + 1
                 IN  /\ NameOf(c, i) \in DOMAIN store
                     /\ \/ FileList(c)[i].key \in DOMAIN store
                        \/ \E d \in Calls \ {c} : Moves(d) > 0 /\ Touched(d, FileList(c)[i].key))
    /\ [](\A key \in Keys : ContentKept(key))
    /\ [][\A c \in Calls :
            (pc[c] \in LoopPcs /\ pc'[c] # pc[c]) => LoopStepInOrder(c)]_vars

\* C13 witness: a call crashed between the copy and the delete of its first
\* file: the permanent object and the orphan staging object both exist.
C13_Witness ==
    \E c \in Calls :
        /\ Failed(c) /\ ret[c].status = "ERROR"
        /\ Len(s3log[c]) = 1
        /\ FileList(c)[1].key \in DOMAIN store
        /\ NameOf(c, 1) \in DOMAIN store
        /\ NoRowsOf(c)

\* The committed posts that name p as their reply parent, as the reblogged
\* post.
RepliesTo(p) == {q \in DOMAIN posts : posts[q].inReplyToId = p}
ReblogsOf(p) == {q \in DOMAIN posts : posts[q].reblogId = p}

\* C14: in every state reached by post.create calls (committed, rejected,
\* failed and rolled back, interleaved), every post's repliesCount is the
\* number of committed posts whose inReplyToId is that post and its
\* reblogsCount the number of committed posts whose reblogId is that post;
\* a create that fails at file validation leaves every committed counter
\* as it was.
C14_CountersMatchRows ==
    /\ [](\A p \in DOMAIN posts :
            /\ posts[p].repliesCount = Cardinality(RepliesTo(p))
            /\ posts[p].reblogsCount = Cardinality(ReblogsOf(p)))
    /\ [][\A c \in Calls :
            (ret[c].status # "BAD_REQUEST" /\ ret'[c].status = "BAD_REQUEST")
                => posts' = posts]_vars

\* C14 witness: a post has one committed reply counted, while another reply
\* to it failed at file validation after its increment had been issued.
C14_Witness ==
    \E c, d \in Calls : \E p \in DOMAIN posts :
        /\ Committed(c) /\ input[c].inReplyToId = p
        /\ ret[d].status = "BAD_REQUEST" /\ input[d].inReplyToId = p
        /\ posts[p].repliesCount = 1
        /\ RepliesTo(p) = {NewPostId(c)}

====
